---- MODULE Spec2Model ----
(***************************************************************************)
(* The conversion workflow of code_converter: the LangGraph state machine  *)
(* of workflow.py (parse -> extract_intents -> validate -> should_retry -> *)
(* generate), the four agents' handling of the LLM response, the           *)
(* convert_with_workflow wrapper with its telemetry, and the API           *)
(* endpoint convert_code that calls it.                                    *)
(*                                                                         *)
(* Python dicts are functions with a domain of string keys ({} is <<>>);   *)
(* Python strings that the code measures or strips are sequences of        *)
(* one-character strings ("" is <<>>).                                     *)
(***************************************************************************)
EXTENDS Integers, Sequences, FiniteSets, TLC

VARIABLES
    entry,       \* which entry point received the request: "direct" | "api"
    req,         \* the request: source_code, source_language, target_language, max_iterations
    pc,          \* position of the run (the node LangGraph executes next, or a wrapper step)
    state,       \* the ConversionState of the run (<<>> before it is built)
    cap,         \* the latest LLM call: the stage that made it and what came back
    exc,         \* str(e) of the exception that escaped a node ("" if none)
    trace,       \* history: the node functions entered so far, in order
    decisions,   \* history: the values should_retry returned so far, in order
    allInvalid,  \* history: every Validate pass so far stored valid = false or a critical issue
    firstPass,   \* history: what the first Validate pass stored: "none" | "clean" | "not_clean"
    ret,         \* what convert_with_workflow returned: pending | None | the final state
    telemetry,   \* the logger calls made so far, in order
    http,        \* the API's answer (status_code 0 while there is none)
    sink,        \* the Elasticsearch sink: "connected" | "unreachable" | "failing"
    indexed,     \* the documents the sink has stored, in order
    validated,   \* history: the intent_graph the latest Validate call that returned was
                 \* given, and the result it returned
    runs,        \* several calls of convert_with_workflow in one process: per call its
                 \* request, position, trace, exception and returned value
    heap,        \* the ConversionState dicts of those calls, by reference
    oracle,      \* a deterministic capability: the answers it has given, by prompt
    global_logger, \* the module-level _logger those calls share
    cleanup      \* the clean-up of one LLM answer in CodeGeneratorAgent.generate: the
                 \* answer's parts, the text so far, and the statement reached

\* the variables of the single request
mainvars == <<entry, req, pc, state, cap, exc, trace, decisions, allInvalid, firstPass,
              ret, telemetry, http, sink, indexed, validated>>

\* the variables of the calls sharing one process
runvars == <<runs, heap, oracle, global_logger>>

vars == <<entry, req, pc, state, cap, exc, trace, decisions, allInvalid, firstPass,
          ret, telemetry, http, sink, indexed, validated, runs, heap, oracle,
          global_logger, cleanup>>

(***************************************************************************)
(* Bounds of the model.                                                    *)
(***************************************************************************)
\* max_iterations inputs reach this far below the API's lower limit minus one ...
ExtraBelow == 1
\* ... and this far above the API's upper limit
ExtraAbove == 1
\* the longest list of issues a validation response carries
MaxIssues == 1
\* the largest max_iterations of the runs made with the sink in every condition
SinkMaxIterations == 2
\* the largest max_iterations of the runs checked for termination
FairMaxIterations == 3
\* the largest max_iterations query parameter of the uploads
FileMaxIterations == 2
\* the most body lines of an LLM answer whose clean-up is checked
MaxBodyLines == 2
\* how many calls of convert_with_workflow share one process
NumRuns == 2
\* the largest max_iterations of those calls
RunsMaxIterations == 2

(***************************************************************************)
(* Program constants.                                                      *)
(***************************************************************************)
ApiMinIterations == 1
ApiMaxIterations == 10

(***************************************************************************)
(* Python helpers.                                                         *)
(***************************************************************************)
\* d.get(k, default)
Get(d, k, default) == IF k \in DOMAIN d THEN d[k] ELSE default

\* bool(x) of a dict or a string: empty is falsy
Truthy(x) == DOMAIN x # {}

\* the characters str.strip() removes
Whitespace == {" ", "\n", "\t"}

RECURSIVE LStrip(_)
LStrip(s) == IF s # <<>> /\ Head(s) \in Whitespace THEN LStrip(Tail(s)) ELSE s

RECURSIVE RStrip(_)
RStrip(s) ==
    IF s # <<>> /\ s[Len(s)] \in Whitespace THEN RStrip(SubSeq(s, 1, Len(s) - 1)) ELSE s

\* str.strip()
Strip(s) == RStrip(LStrip(s))

startswith(str, prefix) ==
    /\ Len(str) >= Len(prefix)
    /\ SubSeq(str, 1, Len(prefix)) = prefix

endswith(str, suffix) ==
    /\ Len(str) >= Len(suffix)
    /\ SubSeq(str, Len(str) - Len(suffix) + 1, Len(str)) = suffix

\* the positions at which sep occurs in str
Occurrences(str, sep) ==
    {i \in 1..(Len(str) - Len(sep) + 1) : SubSeq(str, i, i + Len(sep) - 1) = sep}

\* str.split(sep): the parts between the occurrences of sep, from the left
RECURSIVE str_split(_, _)
str_split(str, sep) ==
    LET hits == Occurrences(str, sep)
    IN  IF hits = {} THEN <<str>>
        ELSE LET i == CHOOSE h \in hits : \A g \in hits : h <= g
             IN  <<SubSeq(str, 1, i - 1)>>
                   \o str_split(SubSeq(str, i + Len(sep), Len(str)), sep)

\* str.rsplit(sep, 1): split once, at the last occurrence of sep
str_rsplit_once(str, sep) ==
    LET hits == Occurrences(str, sep)
    IN  IF hits = {} THEN <<str>>
        ELSE LET i == CHOOSE h \in hits : \A g \in hits : h >= g
             IN  <<SubSeq(str, 1, i - 1), SubSeq(str, i + Len(sep), Len(str))>>

\* sep.join(parts)
RECURSIVE str_join(_, _)
str_join(sep, parts) ==
    IF parts = <<>> THEN <<>>
    ELSE IF Len(parts) = 1 THEN parts[1]
    ELSE parts[1] \o sep \o str_join(sep, Tail(parts))

RECURSIVE SeqsUpTo(_, _)
SeqsUpTo(S, n) ==
    IF n = 0 THEN {<<>>}
    ELSE LET shorter == SeqsUpTo(S, n - 1)
         IN  shorter \cup {Append(s, x) : s \in {t \in shorter : Len(t) = n - 1}, x \in S}

(***************************************************************************)
(* Inputs.                                                                 *)
(***************************************************************************)
SourceCodes == {<<>>, <<" ">>, <<"x", " ">>}
LanguagePairs == {<<"R", "Python">>}
IterInputs == (ApiMinIterations - 1 - ExtraBelow)..(ApiMaxIterations + ExtraAbove)

Requests ==
    {[source_code |-> c, source_language |-> l[1], target_language |-> l[2],
      max_iterations |-> n] : c \in SourceCodes, l \in LanguagePairs, n \in IterInputs}

(***************************************************************************)
(* What an LLM call (self.llm.invoke) can do: raise, or return a response  *)
(* whose content is a JSON object, some other JSON value, or no JSON.      *)
(***************************************************************************)
CapErrors == {"CapabilityUnavailable", "Timeout"}

Raises == {[kind |-> "raise", error |-> e] : e \in CapErrors}
Content(syntax, value) == [kind |-> "content", syntax |-> syntax, value |-> value]
NotJson == {Content("garbage", <<>>)}
NotObject == {Content("array", <<>>)}

ParsedObjects ==
    {[variables |-> <<"x">>, operations |-> <<[type |-> "assignment", details |-> "x"]>>,
      libraries |-> <<>>]}

IntentObjects ==
    {[intents |-> <<[id |-> "intent_1", description |-> "bind x"]>>,
      data_flow |-> [intent_1 |-> <<>>], overall_goal |-> "bind x"],
     [intents |-> <<>>],
     [intents |-> <<[description |-> "bind x"]>>, overall_goal |-> "bind x"]}

Severities == {"critical", "warning", "info"}
IssueLists == SeqsUpTo({[severity |-> s] : s \in Severities}, MaxIssues)

ValidationObjects ==
    {[valid |-> v, issues |-> i] : v \in BOOLEAN, i \in IssueLists}
    \cup {[issues |-> i] : i \in IssueLists}
    \cup {[valid |-> v] : v \in BOOLEAN}

GeneratedCodes == {<<>>, <<"x", "=", "1">>}

ParseResponses == Raises \cup NotJson \cup NotObject \cup {Content("object", o) : o \in ParsedObjects}
IntentResponses == Raises \cup NotJson \cup NotObject \cup {Content("object", o) : o \in IntentObjects}
ValidateResponses == Raises \cup NotJson \cup NotObject \cup {Content("object", o) : o \in ValidationObjects}
GenerateResponses == Raises \cup {Content("code", c) : c \in GeneratedCodes}

\* What a call records in cap: the error raised, or the syntax of the content.
Outcome(resp) == IF resp.kind = "raise" THEN "raise" ELSE resp.syntax

(***************************************************************************)
(* The agents: from the LLM's answer to the value returned or the          *)
(* exception raised.                                                       *)
(***************************************************************************)
Returned(v) == [raised |-> FALSE, error |-> "", value |-> v]
Raised(e) == [raised |-> TRUE, error |-> e, value |-> <<>>]

\* ParserAgent.parse with a catch-all handler around the LLM call
ParserAgent_parse_catch_all(resp) ==
    IF resp.kind = "raise" \/ resp.syntax # "object"
    THEN Returned([raw_analysis |-> "raw", parsing_status |-> "failed_json_parse",
                   error |-> "JSONDecodeError"])
    ELSE Returned(resp.value)

\* ParserAgent.parse
ParserAgent_parse(resp) ==
    IF resp.kind = "raise" THEN Raised(resp.error)
    ELSE IF resp.syntax = "garbage"
         THEN Returned([raw_analysis |-> "raw", parsing_status |-> "failed_json_parse",
                        error |-> "JSONDecodeError"])
    ELSE IF resp.syntax # "object" THEN Raised("AttributeError")
    ELSE Returned(resp.value)

\* IntentExtractorAgent.extract_intents
IntentExtractorAgent_extract_intents(resp) ==
    IF resp.kind = "raise" THEN Raised(resp.error)
    ELSE IF resp.syntax = "garbage"
         THEN Returned([raw_intents |-> "raw", parsing_status |-> "failed_json_parse",
                        error |-> "JSONDecodeError"])
    ELSE IF resp.syntax # "object" THEN Raised("AttributeError")
    ELSE LET intents == Get(resp.value, "intents", <<>>)
         IN  IF \E i \in 1..Len(intents) :
                    ~ ({"id", "description"} \subseteq DOMAIN intents[i])
             THEN Raised("KeyError")
             ELSE Returned(resp.value)

\* ValidatorAgent.validate whose fallback assumes the intentions invalid
ValidatorAgent_validate_assume_invalid(resp) ==
    IF resp.kind = "raise" THEN Raised(resp.error)
    ELSE IF resp.syntax = "garbage"
         THEN Returned([valid |-> FALSE, issues |-> <<>>,
                        overall_assessment |-> "Could not parse validation response",
                        raw_response |-> "raw"])
    ELSE IF resp.syntax # "object" THEN Raised("AttributeError")
    ELSE Returned(resp.value)

\* ValidatorAgent.validate
ValidatorAgent_validate(resp) ==
    IF resp.kind = "raise" THEN Raised(resp.error)
    ELSE IF resp.syntax = "garbage"
         THEN Returned([valid |-> TRUE, issues |-> <<>>,
                        overall_assessment |-> "Could not parse validation response",
                        raw_response |-> "raw"])
    ELSE IF resp.syntax # "object" THEN Raised("AttributeError")
    ELSE Returned(resp.value)

\* the backquote character (written "^" here: a string of this notation cannot hold it)
Backquote == "^"
\* the markdown code-fence delimiter, three backquotes
Fence == <<Backquote, Backquote, Backquote>>
PythonFence == Fence \o <<"p", "y", "t", "h", "o", "n">>
Newline == <<"\n">>

\* "Remove markdown code blocks if present", the opening one
RemoveOpening(generated_code) ==
    IF startswith(generated_code, PythonFence)
    THEN str_split(generated_code, PythonFence)[2]
    ELSE IF startswith(generated_code, Fence)
    THEN LET lines == str_split(generated_code, Newline)
         IN  IF Len(lines) > 2
             THEN str_join(Newline, SubSeq(lines, 2, Len(lines) - 1))
             ELSE generated_code
    ELSE generated_code

\* ... and the closing one
RemoveClosing(generated_code) ==
    IF endswith(generated_code, Fence)
    THEN str_rsplit_once(generated_code, Fence)[1]
    ELSE generated_code

\* the clean-up of response.content as a whole
CleanCode(content) == Strip(RemoveClosing(RemoveOpening(Strip(content))))

\* CodeGeneratorAgent.generate
CodeGeneratorAgent_generate(resp) ==
    IF resp.kind = "raise" THEN Raised(resp.error) ELSE Returned(CleanCode(resp.value))

(***************************************************************************)
(* The logger.                                                             *)
(***************************************************************************)
log_conversion(source_lang, target_lang, status, iterations, code_length) ==
    [kind |-> "conversion", source_language |-> source_lang,
     target_language |-> target_lang, status |-> status,
     iterations |-> iterations, code_length |-> code_length]

log_error(error_type, message) ==
    [kind |-> "error", error_type |-> error_type, message |-> message]

Sinks == {"connected", "unreachable", "failing"}

\* self.es after __init__: the client, or None when the connection could not be made
ElasticsearchLogger_es(s) == IF s = "unreachable" THEN "None" ELSE "client"

\* self.es.index(...): stores the document or raises
es_index(s, docs, doc) ==
    IF s = "connected"
    THEN [raised |-> FALSE, docs |-> Append(docs, doc)]
    ELSE [raised |-> TRUE, docs |-> docs]

\* a logger method without its guard and without its try/except
Logged_unprotected(s, docs, doc) == es_index(s, docs, doc)

\* the body of log_conversion and of log_error around the document:
\* return at once without a client, swallow what index raises
Logged(s, docs, doc) ==
    IF ElasticsearchLogger_es(s) = "None"
    THEN [raised |-> FALSE, docs |-> docs]
    ELSE [raised |-> FALSE, docs |-> es_index(s, docs, doc).docs]

\* two logger calls in a row; the second is not made when the first raises
LoggedBoth(s, docs, first, second) ==
    LET one == Logged(s, docs, first)
        two == Logged(s, one.docs, second)
    IN  IF one.raised
        THEN [raised |-> TRUE, docs |-> one.docs, calls |-> <<first>>]
        ELSE [raised |-> two.raised, docs |-> two.docs, calls |-> <<first, second>>]

(***************************************************************************)
(* The workflow.                                                           *)
(***************************************************************************)
\* an initial state whose counter starts at one
InitialState_counts_from_one(r) ==
    [source_code |-> r.source_code,
     source_language |-> r.source_language,
     target_language |-> r.target_language,
     parsed_structure |-> <<>>,
     intent_graph |-> <<>>,
     validation_result |-> <<>>,
     generated_code |-> <<>>,
     iteration_count |-> 1,
     max_iterations |-> r.max_iterations,
     status |-> "in_progress",
     error_message |-> ""]

\* initial_state of convert_with_workflow
InitialState(r) ==
    [source_code |-> r.source_code,
     source_language |-> r.source_language,
     target_language |-> r.target_language,
     parsed_structure |-> <<>>,
     intent_graph |-> <<>>,
     validation_result |-> <<>>,
     generated_code |-> <<>>,
     iteration_count |-> 0,
     max_iterations |-> r.max_iterations,
     status |-> "in_progress",
     error_message |-> ""]

\* the critical_issues list of should_retry
critical_issues(validation) ==
    SelectSeq(Get(validation, "issues", <<>>),
              LAMBDA issue : Get(issue, "severity", "") = "critical")

\* should_retry with the budget test off by one (<= for <)
should_retry_off_by_one(s) ==
    LET validation == Get(s, "validation_result", <<>>)
        is_valid == Get(validation, "valid", FALSE)
        iteration == Get(s, "iteration_count", 0)
        max_iter == Get(s, "max_iterations", 3)
    IN  IF ~ is_valid \/ critical_issues(validation) # <<>>
        THEN IF iteration <= max_iter THEN "extract_intents" ELSE "generate"
        ELSE "generate"

\* should_retry that gives up one iteration early
should_retry_gives_up_early(s) ==
    LET validation == Get(s, "validation_result", <<>>)
        is_valid == Get(validation, "valid", FALSE)
        iteration == Get(s, "iteration_count", 0)
        max_iter == Get(s, "max_iterations", 3)
    IN  IF ~ is_valid \/ critical_issues(validation) # <<>>
        THEN IF iteration + 1 < max_iter THEN "extract_intents" ELSE "generate"
        ELSE "generate"

\* should_retry that retries on any issue, whatever its severity
should_retry_any_issue(s) ==
    LET validation == Get(s, "validation_result", <<>>)
        is_valid == Get(validation, "valid", FALSE)
        iteration == Get(s, "iteration_count", 0)
        max_iter == Get(s, "max_iterations", 3)
    IN  IF ~ is_valid \/ Get(validation, "issues", <<>>) # <<>>
        THEN IF iteration < max_iter THEN "extract_intents" ELSE "generate"
        ELSE "generate"

\* should_retry that looks at the valid flag only
should_retry_ignores_critical(s) ==
    LET validation == Get(s, "validation_result", <<>>)
        is_valid == Get(validation, "valid", FALSE)
        iteration == Get(s, "iteration_count", 0)
        max_iter == Get(s, "max_iterations", 3)
    IN  IF ~ is_valid
        THEN IF iteration < max_iter THEN "extract_intents" ELSE "generate"
        ELSE "generate"

\* should_retry that ends the run without generating once the budget is spent
should_retry_fails_when_exhausted(s) ==
    LET validation == Get(s, "validation_result", <<>>)
        is_valid == Get(validation, "valid", FALSE)
        iteration == Get(s, "iteration_count", 0)
        max_iter == Get(s, "max_iterations", 3)
    IN  IF ~ is_valid \/ critical_issues(validation) # <<>>
        THEN IF iteration < max_iter THEN "extract_intents" ELSE "end"
        ELSE "generate"

\* should_retry that replaces a budget below one by the default of three
should_retry_defaults_budget(s) ==
    LET validation == Get(s, "validation_result", <<>>)
        is_valid == Get(validation, "valid", FALSE)
        iteration == Get(s, "iteration_count", 0)
        given == Get(s, "max_iterations", 3)
        max_iter == IF given < 1 THEN 3 ELSE given
    IN  IF ~ is_valid \/ critical_issues(validation) # <<>>
        THEN IF iteration < max_iter THEN "extract_intents" ELSE "generate"
        ELSE "generate"

\* should_retry that retries whatever the budget
should_retry_ignores_budget(s) ==
    LET validation == Get(s, "validation_result", <<>>)
        is_valid == Get(validation, "valid", FALSE)
    IN  IF ~ is_valid \/ critical_issues(validation) # <<>>
        THEN "extract_intents"
        ELSE "generate"

\* should_retry: the name of the next node
should_retry(s) ==
    LET validation == Get(s, "validation_result", <<>>)
        is_valid == Get(validation, "valid", FALSE)
        iteration == Get(s, "iteration_count", 0)
        max_iter == Get(s, "max_iterations", 3)
    IN  IF ~ is_valid \/ critical_issues(validation) # <<>>
        THEN IF iteration < max_iter THEN "extract_intents" ELSE "generate"
        ELSE "generate"

\* a graph whose generate node leads back to validate
Edge_generate_loops(node) ==
    CASE node = "parse" -> "extract_intents"
      [] node = "extract_intents" -> "validate"
      [] node = "validate" -> "route"
      [] node = "generate" -> "validate"

\* a graph whose parse node leads to validate
Edge_parse_to_validate(node) ==
    CASE node = "parse" -> "validate"
      [] node = "extract_intents" -> "validate"
      [] node = "validate" -> "route"
      [] node = "generate" -> "end"

\* a graph whose extract_intents node leads to the routing decision
Edge_skips_validate(node) ==
    CASE node = "parse" -> "extract_intents"
      [] node = "extract_intents" -> "route"
      [] node = "validate" -> "route"
      [] node = "generate" -> "end"

\* the unconditional edges of create_workflow; validate leaves by should_retry
Edge(node) ==
    CASE node = "parse" -> "extract_intents"
      [] node = "extract_intents" -> "validate"
      [] node = "validate" -> "route"
      [] node = "generate" -> "end"

\* A graph that swallows a node's exception and follows the edge
NodeRan_swallows(node, resp, r) ==
    /\ cap' = [stage |-> node, outcome |-> Outcome(resp)]
    /\ trace' = Append(trace, node)
    /\ pc' = Edge(node)
    /\ exc' = IF r.raised THEN r.error ELSE exc

\* The bookkeeping every node shares: the call is recorded, the node is entered,
\* and an exception leaves the graph (app.invoke raises).
NodeRan(node, resp, r) ==
    /\ cap' = [stage |-> node, outcome |-> Outcome(resp)]
    /\ trace' = Append(trace, node)
    /\ pc' = IF r.raised THEN "raised" ELSE Edge(node)
    /\ exc' = IF r.raised THEN r.error ELSE exc

\* the capability's possible answers to a node's LLM call
Responses(node) ==
    CASE node = "parse" -> ParseResponses
      [] node = "extract_intents" -> IntentResponses
      [] node = "validate" -> ValidateResponses
      [] node = "generate" -> GenerateResponses

\* the agent method a node calls, applied to the LLM's answer
Agent(node, resp) ==
    CASE node = "parse" -> ParserAgent_parse(resp)
      [] node = "extract_intents" -> IntentExtractorAgent_extract_intents(resp)
      [] node = "validate" -> ValidatorAgent_validate(resp)
      [] node = "generate" -> CodeGeneratorAgent_generate(resp)

\* nodes whose generate stores the code and leaves status alone
NodeState_generate_keeps_status(node, s, r) ==
    IF r.raised THEN s
    ELSE CASE node = "parse" -> [s EXCEPT !.parsed_structure = r.value]
           [] node = "extract_intents" ->
                [s EXCEPT !.intent_graph = r.value,
                          !.iteration_count = Get(s, "iteration_count", 0) + 1]
           [] node = "validate" -> [s EXCEPT !.validation_result = r.value]
           [] node = "generate" -> [s EXCEPT !.generated_code = r.value]

\* nodes whose validate also clears the intent graph
NodeState_validate_clears_graph(node, s, r) ==
    IF r.raised THEN s
    ELSE CASE node = "parse" -> [s EXCEPT !.parsed_structure = r.value]
           [] node = "extract_intents" ->
                [s EXCEPT !.intent_graph = r.value,
                          !.iteration_count = Get(s, "iteration_count", 0) + 1]
           [] node = "validate" -> [s EXCEPT !.validation_result = r.value,
                                             !.intent_graph = <<>>]
           [] node = "generate" -> [s EXCEPT !.generated_code = r.value,
                                             !.status = "success"]

\* the state a node returns: s with the agent's value stored (s as it was if the agent raised)
NodeState(node, s, r) ==
    IF r.raised THEN s
    ELSE CASE node = "parse" -> [s EXCEPT !.parsed_structure = r.value]
           [] node = "extract_intents" ->
                [s EXCEPT !.intent_graph = r.value,
                          !.iteration_count = Get(s, "iteration_count", 0) + 1]
           [] node = "validate" -> [s EXCEPT !.validation_result = r.value]
           [] node = "generate" -> [s EXCEPT !.generated_code = r.value,
                                             !.status = "success"]

parse_node ==
    /\ pc = "parse"
    /\ \E resp \in Responses("parse") :
          LET r == Agent("parse", resp)
          IN  /\ NodeRan("parse", resp, r)
              /\ state' = NodeState("parse", state, r)
    /\ UNCHANGED <<entry, req, decisions, allInvalid, firstPass, ret, telemetry, http, sink, indexed, validated, runvars, cleanup>>

extract_intents_node ==
    /\ pc = "extract_intents"
    /\ \E resp \in Responses("extract_intents") :
          LET r == Agent("extract_intents", resp)
          IN  /\ NodeRan("extract_intents", resp, r)
              /\ state' = NodeState("extract_intents", state, r)
    /\ UNCHANGED <<entry, req, decisions, allInvalid, firstPass, ret, telemetry, http, sink, indexed, validated, runvars, cleanup>>

\* What the history keeps of a stored validation result.
ReportsInvalid(v) ==
    \/ ("valid" \in DOMAIN v /\ v.valid = FALSE)
    \/ \E i \in 1..Len(Get(v, "issues", <<>>)) : Get(v.issues[i], "severity", "") = "critical"

ReportsClean(v) ==
    /\ "valid" \in DOMAIN v /\ v.valid = TRUE
    /\ \A i \in 1..Len(Get(v, "issues", <<>>)) : Get(v.issues[i], "severity", "") # "critical"

validate_node ==
    /\ pc = "validate"
    /\ \E resp \in Responses("validate") :
          LET r == Agent("validate", resp)
          IN  /\ NodeRan("validate", resp, r)
              /\ state' = NodeState("validate", state, r)
              /\ allInvalid' = IF r.raised THEN allInvalid
                               ELSE allInvalid /\ ReportsInvalid(r.value)
              /\ firstPass' = IF r.raised \/ firstPass # "none" THEN firstPass
                              ELSE IF ReportsClean(r.value) THEN "clean" ELSE "not_clean"
              /\ validated' = IF r.raised THEN validated
                              ELSE [intent_graph |-> state.intent_graph,
                                    result |-> r.value]
    /\ UNCHANGED <<entry, req, decisions, ret, telemetry, http, sink, indexed, runvars, cleanup>>

\* the conditional edge out of validate
should_retry_edge ==
    /\ pc = "route"
    /\ pc' = should_retry(state)
    /\ decisions' = Append(decisions, should_retry(state))
    /\ UNCHANGED <<entry, req, state, cap, exc, trace, allInvalid, firstPass, ret,
                   telemetry, http, sink, indexed, validated, runvars, cleanup>>

generate_node ==
    /\ pc = "generate"
    /\ \E resp \in Responses("generate") :
          LET r == Agent("generate", resp)
          IN  /\ NodeRan("generate", resp, r)
              /\ state' = NodeState("generate", state, r)
    /\ UNCHANGED <<entry, req, decisions, allInvalid, firstPass, ret, telemetry, http, sink, indexed, validated, runvars, cleanup>>

(***************************************************************************)
(* convert_with_workflow around the graph.                                 *)
(***************************************************************************)
\* where the run goes once convert_with_workflow has returned
AfterReturn == IF entry = "direct" THEN "done" ELSE "api_result"

\* the call: the initial state is built and the graph starts at its entry point
convert_with_workflow_call ==
    /\ pc = "call"
    /\ state' = InitialState(req)
    /\ pc' = "parse"
    /\ UNCHANGED <<entry, req, cap, exc, trace, decisions, allInvalid, firstPass, ret,
                   telemetry, http, sink, indexed, validated, runvars, cleanup>>

\* the try block after app.invoke returned final_state
convert_with_workflow_return ==
    /\ pc = "end"
    /\ LET doc == log_conversion(req.source_language, req.target_language, "success",
                                 Get(state, "iteration_count", 0),
                                 Len(Get(state, "generated_code", <<>>)))
           logged == Logged(sink, indexed, doc)
       IN  /\ telemetry' = Append(telemetry, doc)
           /\ indexed' = logged.docs
           /\ IF logged.raised
              THEN /\ exc' = "SinkError"
                   /\ ret' = ret
                   /\ pc' = "raised"
              ELSE /\ exc' = exc
                   /\ ret' = [kind |-> "state", state |-> state]
                   /\ pc' = AfterReturn
    /\ UNCHANGED <<entry, req, state, cap, trace, decisions, allInvalid, firstPass, http, sink, validated, runvars, cleanup>>

\* an except block that raises again
ExceptReturn_reraise(s) == [kind |-> "exception"]

\* the value the except block returns
ExceptReturn(s) == [kind |-> "None"]

\* the except block: app.invoke raised
convert_with_workflow_except ==
    /\ pc = "raised"
    /\ LET logged == LoggedBoth(sink, indexed,
                log_conversion(req.source_language, req.target_language, "failed", 0, 0),
                log_error("workflow_error", exc))
       IN  /\ telemetry' = telemetry \o logged.calls
           /\ indexed' = logged.docs
           /\ ret' = IF logged.raised THEN [kind |-> "exception"] ELSE ExceptReturn(state)
    /\ pc' = AfterReturn
    /\ UNCHANGED <<entry, req, state, cap, exc, trace, decisions, allInvalid, firstPass, http, sink, validated, runvars, cleanup>>

(***************************************************************************)
(* The API endpoint convert_code.                                          *)
(***************************************************************************)
\* the input validation of convert_code
RequestRejected(r) ==
    \/ ~ Truthy(r.source_code)
    \/ ~ Truthy(Strip(r.source_code))
    \/ r.max_iterations < ApiMinIterations
    \/ r.max_iterations > ApiMaxIterations

\* where the request goes once convert_code has answered or raised
AfterApi == IF entry = "file" THEN "file_result" ELSE "done"

\* convert_code up to its call of convert_with_workflow
convert_code_call ==
    /\ pc = "api"
    /\ IF RequestRejected(req)
       THEN /\ http' = [status_code |-> 400]
            /\ pc' = AfterApi
       ELSE /\ http' = http
            /\ pc' = "call"
    /\ UNCHANGED <<entry, req, state, cap, exc, trace, decisions, allInvalid, firstPass,
                   ret, telemetry, sink, indexed, validated, runvars, cleanup>>

\* the ConversionResponse of the success branch
ConversionResponse(result) ==
    [status_code |-> 200,
     success |-> TRUE,
     generated_code |-> Get(result, "generated_code", <<>>),
     intent_graph |-> Get(result, "intent_graph", <<>>),
     validation_result |-> Get(result, "validation_result", <<>>),
     iterations |-> Get(result, "iteration_count", 0),
     error_message |-> Get(result, "error_message", "")]

\* the ConversionResponse of the `except Exception` handler
ErrorResponse(message) ==
    [status_code |-> 200,
     success |-> FALSE,
     generated_code |-> "None",
     intent_graph |-> "None",
     validation_result |-> "None",
     iterations |-> 0,
     error_message |-> message]

\* convert_code after convert_with_workflow returned
convert_code_respond ==
    /\ pc = "api_result"
    /\ LET result == IF ret.kind = "state" THEN ret.state ELSE <<>>
           doc == log_conversion(req.source_language, req.target_language, "success",
                                 Get(result, "iteration_count", 0),
                                 Len(Get(result, "generated_code", <<>>)))
           logged == IF ret.kind = "state" /\ Truthy(result)
                     THEN Logged(sink, indexed, doc)
                     ELSE [raised |-> FALSE, docs |-> indexed]
           calls == IF ret.kind = "state" /\ Truthy(result) THEN <<doc>> ELSE <<>>
           \* the handler of `except Exception`
           handled == LoggedBoth(sink, logged.docs,
                log_conversion(req.source_language, req.target_language, "failed", 0, 0),
                log_error("api_error", IF logged.raised THEN "SinkError" ELSE exc))
       IN  IF ret.kind = "exception" \/ logged.raised
           THEN /\ telemetry' = telemetry \o calls \o handled.calls
                /\ indexed' = handled.docs
                /\ http' = IF handled.raised
                           THEN [status_code |-> 500]
                           ELSE ErrorResponse(IF logged.raised THEN "SinkError" ELSE exc)
           ELSE /\ telemetry' = telemetry \o calls
                /\ indexed' = logged.docs
                /\ http' = IF Truthy(result)
                           THEN ConversionResponse(result)
                           ELSE [status_code |-> 500]
    /\ pc' = AfterApi
    /\ UNCHANGED <<entry, req, state, cap, exc, trace, decisions, allInvalid, firstPass, ret, sink, validated, runvars, cleanup>>

(***************************************************************************)
(* The specification.                                                      *)
(***************************************************************************)
\* one request enters through one entry point, with the sink in one condition
InitWith(requests, sinks) ==
    /\ entry \in {"direct", "api"}
    /\ req \in requests
    /\ pc = IF entry = "api" THEN "api" ELSE "call"
    /\ state = <<>>
    /\ cap = [stage |-> "none", outcome |-> "none"]
    /\ exc = ""
    /\ trace = <<>>
    /\ decisions = <<>>
    /\ allInvalid = TRUE
    /\ firstPass = "none"
    /\ ret = [kind |-> "pending"]
    /\ telemetry = <<>>
    /\ http = [status_code |-> 0]
    /\ sink \in sinks
    /\ indexed = <<>>
    /\ validated = [intent_graph |-> <<>>, result |-> <<>>]
    /\ runs = <<>>
    /\ heap = <<>>
    /\ oracle = <<>>
    /\ global_logger = "None"
    /\ cleanup = [step |-> "idle"]

Init == InitWith(Requests, {"connected"})

Next ==
    \/ convert_code_call
    \/ convert_with_workflow_call
    \/ parse_node
    \/ extract_intents_node
    \/ validate_node
    \/ should_retry_edge
    \/ generate_node
    \/ convert_with_workflow_return
    \/ convert_with_workflow_except
    \/ convert_code_respond

Spec == Init /\ [][Next]_vars

\* Runs in which every step that is due is taken: a node function, a routing
\* decision or a wrapper step that can run does run (each LLM call returns or raises).
FairRequests ==
    {r \in Requests : /\ Truthy(Strip(r.source_code))
                      /\ r.max_iterations \in ApiMinIterations..FairMaxIterations}

FairInit == InitWith(FairRequests, {"connected"})

FairSpec == FairInit /\ [][Next]_vars /\ WF_vars(Next)

(***************************************************************************)
(* The same runs with the telemetry sink in every condition: reachable,    *)
(* unreachable when the logger is constructed, or failing on index.        *)
(***************************************************************************)
SinkRequests ==
    {r \in Requests : /\ Truthy(Strip(r.source_code))
                      /\ r.max_iterations \in ApiMinIterations..SinkMaxIterations}

SinkInit == InitWith(SinkRequests, Sinks)

SinkSpec == SinkInit /\ [][Next]_vars

(***************************************************************************)
(* The file-upload endpoint convert_file: it reads the upload, takes the   *)
(* source language from the file extension, builds a ConversionRequest and *)
(* awaits convert_code, all inside one try block.                          *)
(***************************************************************************)
\* str.lower() on the characters file names are made of here
Lower(ch) ==
    CASE ch = "R" -> "r"
      [] ch = "P" -> "p"
      [] ch = "Y" -> "y"
      [] OTHER -> ch

lower(str) == [i \in 1..Len(str) |-> Lower(str[i])]

\* the source language convert_file detects, "" for an unsupported extension
DetectedLanguage(filename) ==
    IF endswith(lower(filename), <<".", "r">>) THEN "R"
    ELSE IF endswith(lower(filename), <<".", "p", "y">>) THEN "Python"
    ELSE ""

FileNames == {<<"a", ".", "R">>, <<"a", ".", "p", "y">>, <<"a", ".", "t", "x", "t">>}

\* an upload with the query parameters target_language and max_iterations
Uploads ==
    {[file |-> [filename |-> f, content |-> c, utf8 |-> u],
      target_language |-> "Python", max_iterations |-> n] :
        f \in FileNames, c \in {<<>>, <<"x", " ">>}, u \in BOOLEAN,
        n \in (ApiMinIterations - 1)..FileMaxIterations}

\* convert_file up to its call of convert_code
convert_file_call ==
    /\ pc = "file"
    /\ IF ~ req.file.utf8
       THEN \* content.decode raises UnicodeDecodeError, which has its own handler
            /\ http' = [status_code |-> 400]
            /\ req' = req
            /\ pc' = "done"
       ELSE IF DetectedLanguage(req.file.filename) = ""
       THEN \* HTTPException(400) is raised inside the try and caught by `except Exception`
            /\ http' = [status_code |-> 500]
            /\ req' = req
            /\ pc' = "done"
       ELSE /\ http' = http
            /\ req' = [source_code |-> req.file.content,
                       source_language |-> DetectedLanguage(req.file.filename),
                       target_language |-> req.target_language,
                       max_iterations |-> req.max_iterations]
            /\ pc' = "api"
    /\ UNCHANGED <<entry, state, cap, exc, trace, decisions, allInvalid, firstPass, ret,
                   telemetry, sink, indexed, validated, runvars, cleanup>>

\* convert_file after convert_code returned or raised
convert_file_respond ==
    /\ pc = "file_result"
    /\ http' = IF http.status_code \in {400, 500}
               THEN \* the HTTPException of convert_code is caught by `except Exception`
                    [status_code |-> 500]
               ELSE http
    /\ pc' = "done"
    /\ UNCHANGED <<entry, req, state, cap, exc, trace, decisions, allInvalid, firstPass, ret,
                   telemetry, sink, indexed, validated, runvars, cleanup>>

FileInit ==
    /\ entry = "file"
    /\ req \in Uploads
    /\ pc = "file"
    /\ state = <<>>
    /\ cap = [stage |-> "none", outcome |-> "none"]
    /\ exc = ""
    /\ trace = <<>>
    /\ decisions = <<>>
    /\ allInvalid = TRUE
    /\ firstPass = "none"
    /\ ret = [kind |-> "pending"]
    /\ telemetry = <<>>
    /\ http = [status_code |-> 0]
    /\ sink = "connected"
    /\ indexed = <<>>
    /\ validated = [intent_graph |-> <<>>, result |-> <<>>]
    /\ runs = <<>>
    /\ heap = <<>>
    /\ oracle = <<>>
    /\ global_logger = "None"
    /\ cleanup = [step |-> "idle"]

FileNext ==
    \/ convert_file_call
    \/ Next
    \/ convert_file_respond

FileSpec == FileInit /\ [][FileNext]_vars

(***************************************************************************)
(* Several calls of convert_with_workflow in one process, their node       *)
(* executions interleaved in any order, against a deterministic            *)
(* capability: the same prompt always gets the same answer (or the same    *)
(* exception). The answers are fixed the first time a prompt is sent.      *)
(***************************************************************************)
RunIds == 1..NumRuns

RunRequests ==
    {r \in Requests : /\ r.source_code = <<"x", " ">>
                      /\ r.max_iterations \in ApiMinIterations..RunsMaxIterations}

\* the answers the deterministic capability chooses from
RunResponses(node) ==
    CASE node = "parse" ->
            {[kind |-> "raise", error |-> "Timeout"], Content("garbage", <<>>),
             Content("array", <<>>)}
            \cup {Content("object", o) : o \in ParsedObjects}
      [] node = "extract_intents" ->
            {[kind |-> "raise", error |-> "Timeout"], Content("garbage", <<>>),
             Content("object", [intents |-> <<>>]),
             Content("object", [intents |-> <<[id |-> "intent_1", description |-> "bind x"]>>,
                                data_flow |-> [intent_1 |-> <<>>],
                                overall_goal |-> "bind x"])}
      [] node = "validate" ->
            {[kind |-> "raise", error |-> "Timeout"],
             Content("object", [valid |-> TRUE, issues |-> <<>>]),
             Content("object", [issues |-> <<>>]),
             Content("object", [valid |-> FALSE, issues |-> <<[severity |-> "critical"]>>])}
      [] node = "generate" ->
            {[kind |-> "raise", error |-> "Timeout"], Content("code", <<"x", "=", "1">>)}

\* what a node's agent puts into its user prompt
Prompt(node, s) ==
    CASE node = "parse" ->
            [stage |-> node, source_code |-> s.source_code,
             source_language |-> s.source_language]
      [] node = "extract_intents" ->
            [stage |-> node, parsed_structure |-> s.parsed_structure,
             source_code |-> s.source_code, source_language |-> s.source_language]
      [] node = "validate" ->
            [stage |-> node, intent_graph |-> s.intent_graph,
             parsed_structure |-> s.parsed_structure, source_code |-> s.source_code]
      [] node = "generate" ->
            [stage |-> node, intent_graph |-> s.intent_graph,
             source_code |-> s.source_code, source_language |-> s.source_language,
             target_language |-> s.target_language]

Known(orc, prompt) == \E i \in 1..Len(orc) : orc[i].prompt = prompt

Recall(orc, prompt) == orc[CHOOSE i \in 1..Len(orc) : orc[i].prompt = prompt].resp

\* a capability that may answer the same prompt differently each time
Answers_any(orc, node, prompt) == RunResponses(node)

\* self.llm.invoke on a deterministic capability
Answers(orc, node, prompt) ==
    IF Known(orc, prompt) THEN {Recall(orc, prompt)} ELSE RunResponses(node)

Learn(orc, prompt, resp) ==
    IF Known(orc, prompt) THEN orc ELSE Append(orc, [prompt |-> prompt, resp |-> resp])

\* one state dict shared by every call
StateRef_shared(r) == 1

\* the reference of the state dict of call r: initial_state is a new dict in every call
StateRef(r) == r

\* get_logger: the module-level logger is created by the first call and reused
get_logger(logger) == IF logger = "None" THEN "ElasticsearchLogger" ELSE logger

\* convert_with_workflow is called: the logger is fetched, the state built
run_call(r) ==
    /\ runs[r].pc = "call"
    /\ global_logger' = get_logger(global_logger)
    /\ heap' = [heap EXCEPT ![StateRef(r)] = InitialState(runs[r].req)]
    /\ runs' = [runs EXCEPT ![r].pc = "parse"]
    /\ UNCHANGED <<mainvars, oracle, cleanup>>

\* one of the four nodes runs on the state of call r
run_node(r) ==
    /\ runs[r].pc \in {"parse", "extract_intents", "validate", "generate"}
    /\ LET node == runs[r].pc
           s == heap[StateRef(r)]
       IN  \E resp \in Answers(oracle, node, Prompt(node, s)) :
              LET a == Agent(node, resp)
              IN  /\ oracle' = Learn(oracle, Prompt(node, s), resp)
                  /\ heap' = [heap EXCEPT ![StateRef(r)] = NodeState(node, s, a)]
                  /\ runs' = [runs EXCEPT
                                ![r].pc = IF a.raised THEN "raised" ELSE Edge(node),
                                ![r].exc = IF a.raised THEN a.error ELSE @,
                                ![r].trace = Append(@, node)]
    /\ UNCHANGED <<mainvars, global_logger, cleanup>>

\* the conditional edge out of validate
run_should_retry(r) ==
    /\ runs[r].pc = "route"
    /\ runs' = [runs EXCEPT ![r].pc = should_retry(heap[StateRef(r)])]
    /\ UNCHANGED <<mainvars, heap, oracle, global_logger, cleanup>>

\* app.invoke returned: the call returns final_state
run_return(r) ==
    /\ runs[r].pc = "end"
    /\ runs' = [runs EXCEPT ![r].pc = "done",
                            ![r].ret = [kind |-> "state", state |-> heap[StateRef(r)]]]
    /\ UNCHANGED <<mainvars, heap, oracle, global_logger, cleanup>>

\* app.invoke raised: the except block returns
run_except(r) ==
    /\ runs[r].pc = "raised"
    /\ runs' = [runs EXCEPT ![r].pc = "done",
                            ![r].ret = ExceptReturn(heap[StateRef(r)])]
    /\ UNCHANGED <<mainvars, heap, oracle, global_logger, cleanup>>

RunsInit ==
    /\ runs \in [RunIds -> {[req |-> q, pc |-> "call", exc |-> "", trace |-> <<>>,
                             ret |-> [kind |-> "pending"]] : q \in RunRequests}]
    /\ heap = [ref \in {StateRef(r) : r \in RunIds} |-> <<>>]
    /\ oracle = <<>>
    /\ global_logger = "None"
    /\ cleanup = [step |-> "idle"]
    /\ entry = "none"
    /\ req = <<>>
    /\ pc = "idle"
    /\ state = <<>>
    /\ cap = [stage |-> "none", outcome |-> "none"]
    /\ exc = ""
    /\ trace = <<>>
    /\ decisions = <<>>
    /\ allInvalid = TRUE
    /\ firstPass = "none"
    /\ ret = [kind |-> "pending"]
    /\ telemetry = <<>>
    /\ http = [status_code |-> 0]
    /\ sink = "connected"
    /\ indexed = <<>>
    /\ validated = [intent_graph |-> <<>>, result |-> <<>>]

RunsNext ==
    \/ \E r \in RunIds : run_call(r)
    \/ \E r \in RunIds : run_node(r)
    \/ \E r \in RunIds : run_should_retry(r)
    \/ \E r \in RunIds : run_return(r)
    \/ \E r \in RunIds : run_except(r)

RunsSpec == RunsInit /\ [][RunsNext]_vars

(***************************************************************************)
(* The clean-up of the generated code, statement by statement, on answers  *)
(* made of an optional opening fence line, body lines and an optional      *)
(* closing fence line, with or without whitespace around them.             *)
(***************************************************************************)
Openings == {<<>>, <<Fence>>, <<PythonFence>>}
Closings == {<<>>, <<Fence>>}
BodyLines == {<<"a">>, <<" ", "b">>}
Bodies == SeqsUpTo(BodyLines, MaxBodyLines)

\* response.content: the lines joined, padded with whitespace or not
Answer(opening, body, closing, padded) ==
    LET text == str_join(Newline, opening \o body \o closing)
    IN  IF padded THEN <<" ">> \o text \o Newline ELSE text

\* generated_code = response.content.strip()
cleanup_strip ==
    /\ cleanup.step = "response"
    /\ cleanup' = [cleanup EXCEPT !.text = Strip(@), !.step = "stripped"]
    /\ UNCHANGED <<mainvars, runvars>>

\* the if/elif on the opening fence
cleanup_opening ==
    /\ cleanup.step = "stripped"
    /\ cleanup' = [cleanup EXCEPT !.text = RemoveOpening(@), !.step = "opened"]
    /\ UNCHANGED <<mainvars, runvars>>

\* the if on the closing fence, and the final strip
cleanup_closing ==
    /\ cleanup.step = "opened"
    /\ cleanup' = [cleanup EXCEPT !.text = Strip(RemoveClosing(@)), !.step = "returned"]
    /\ UNCHANGED <<mainvars, runvars>>

CleanupInit ==
    /\ \E opening \in Openings, body \in Bodies, closing \in Closings, padded \in BOOLEAN :
          cleanup = [step |-> "response", opening |-> opening, body |-> body,
                     closing |-> closing,
                     text |-> Answer(opening, body, closing, padded)]
    /\ runs = <<>>
    /\ heap = <<>>
    /\ oracle = <<>>
    /\ global_logger = "None"
    /\ entry = "none"
    /\ req = <<>>
    /\ pc = "idle"
    /\ state = <<>>
    /\ cap = [stage |-> "none", outcome |-> "none"]
    /\ exc = ""
    /\ trace = <<>>
    /\ decisions = <<>>
    /\ allInvalid = TRUE
    /\ firstPass = "none"
    /\ ret = [kind |-> "pending"]
    /\ telemetry = <<>>
    /\ http = [status_code |-> 0]
    /\ sink = "connected"
    /\ indexed = <<>>
    /\ validated = [intent_graph |-> <<>>, result |-> <<>>]

CleanupNext ==
    \/ cleanup_strip
    \/ cleanup_opening
    \/ cleanup_closing

CleanupSpec == CleanupInit /\ [][CleanupNext]_vars

(***************************************************************************)
(* Vocabulary of the properties.                                           *)
(***************************************************************************)
Last(seq) == seq[Len(seq)]

\* how many times x occurs in seq
RECURSIVE Count(_, _)
Count(seq, x) ==
    IF seq = <<>> THEN 0
    ELSE (IF Head(seq) = x THEN 1 ELSE 0) + Count(Tail(seq), x)

\* convert_with_workflow has built the ConversionState of the run
Built == state # <<>>

\* an exception has escaped a node
StageRaised == exc # ""

\* convert_with_workflow has returned to its caller
HasReturned == ret.kind # "pending"

\* max_iterations is in the range the API accepts
InApiRange == req.max_iterations \in ApiMinIterations..ApiMaxIterations

Retries == Count(decisions, "extract_intents")

(***************************************************************************)
(* C1: with max_iterations = N in 1..10, iteration_count never exceeds N   *)
(* in any state of the run, the returned (terminal) state included.        *)
(***************************************************************************)
C1_IterationCountBounded ==
    InApiRange =>
        /\ Built => state.iteration_count <= req.max_iterations
        /\ ret.kind = "state" => ret.state.iteration_count <= req.max_iterations

\* a run that used its whole budget of 10 and returned
C1_Witness ==
    /\ req.max_iterations = ApiMaxIterations
    /\ ret.kind = "state"
    /\ ret.state.iteration_count = ApiMaxIterations

C3_CleanFirstPassNoRetry ==
    firstPass = "clean" =>
        /\ Count(trace, "extract_intents") = 1
        /\ Count(trace, "validate") = 1
        /\ Count(trace, "generate") <= 1
        /\ Retries = 0
        /\ state.iteration_count = 1
        /\ ret.kind = "state" =>
                /\ ret.state.iteration_count = 1
                /\ ret.state.status = "success"
                /\ Count(trace, "generate") = 1

\* a clean first pass that carried a warning, with budget left, then a normal return
C3_Witness ==
    /\ firstPass = "clean"
    /\ req.max_iterations = 3
    /\ ret.kind = "state"
    /\ Get(state.validation_result, "issues", <<>>) = <<[severity |-> "warning"]>>
    /\ trace = <<"parse", "extract_intents", "validate", "generate">>

(***************************************************************************)
(* C4: should_retry is the decision function of the retry policy: on a     *)
(* validation result that carries valid, the route is extract_intents      *)
(* exactly when (valid is false or some issue is critical) and             *)
(* iteration_count < max_iterations, and generate otherwise; the decision  *)
(* changes no field of the state.                                          *)
(***************************************************************************)
hasCritical(validationResult) ==
    \E i \in 1..Len(Get(validationResult, "issues", <<>>)) :
        validationResult.issues[i].severity = "critical"

decide(validationResult, iterationCount, maxIterations) ==
    IF (validationResult.valid = FALSE \/ hasCritical(validationResult))
       /\ iterationCount < maxIterations
    THEN "extract_intents"
    ELSE "generate"

C5_FailureReturnsFailedState ==
    (StageRaised /\ HasReturned) =>
        /\ ret.kind = "state"
        /\ ret.state.status = "failed"
        /\ ret.state.error_message # ""
        /\ cap.stage = "parse" => ret.state.generated_code = <<>>

(***************************************************************************)
(* C6: convert_with_workflow never propagates an exception raised by a     *)
(* stage: whatever the stage and the iteration, the call returns a value   *)
(* to its caller.                                                          *)
(***************************************************************************)
C6_StageExceptionNotPropagated ==
    /\ ret.kind \in {"pending", "None", "state"}
    /\ (StageRaised /\ pc \in {"api_result", "done"}) => ret.kind \in {"None", "state"}

\* an exception raised by Validate in the second iteration, and the call returned
C6_Witness ==
    /\ StageRaised
    /\ cap = [stage |-> "validate", outcome |-> "raise"]
    /\ state.iteration_count = 2
    /\ pc = "done"
    /\ ret.kind = "None"

(***************************************************************************)
(* C7: a raised capability error or a timeout aborts the run: once a stage *)
(* has raised no further stage executes, and neither the value returned    *)
(* nor the API's answer is a success.                                      *)
(***************************************************************************)
C7_RaiseAbortsRun ==
    /\ [][StageRaised => (trace' = trace /\ state' = state)]_vars
    /\ [](StageRaised =>
            /\ cap.outcome = "raise" \/ exc \in {"AttributeError", "KeyError"}
            /\ Last(trace) = cap.stage
            /\ ~ (ret.kind = "state" /\ ret.state.status = "success")
            /\ http.status_code # 200)

\* a timeout in Validate: Generate never ran and the caller got None
C7_Witness ==
    /\ exc = "Timeout"
    /\ cap.stage = "validate"
    /\ Count(trace, "generate") = 0
    /\ pc = "done"
    /\ ret.kind = "None"

(***************************************************************************)
(* C8: a request with max_iterations < 1, max_iterations > 10 or empty     *)
(* source code is rejected before the engine runs, on both entry points:   *)
(* no stage executes and no capability call is made.                       *)
(***************************************************************************)
C8_InvalidRequestRunsNoStage ==
    RequestRejected(req) => (trace = <<>> /\ cap.stage = "none")

(***************************************************************************)
(* C9: an unparseable response in Validate never aborts the run: Validate  *)
(* stores valid = true with no issues, that pass is routed to Generate     *)
(* whatever budget remains, and the run returns status = success unless a  *)
(* stage raises.                                                           *)
(***************************************************************************)
\* the stored validation result is the fallback of ValidatorAgent.validate
Degraded == Built /\ "raw_response" \in DOMAIN state.validation_result

C9_UnparseableValidationProceeds ==
    /\ (cap = [stage |-> "validate", outcome |-> "garbage"]) =>
            (Degraded /\ pc \in {"route", "generate"})
    /\ Degraded =>
        /\ state.validation_result.valid = TRUE
        /\ state.validation_result.issues = <<>>
        /\ Len(decisions) = Count(trace, "validate") => Last(decisions) = "generate"
        /\ pc \notin {"extract_intents", "validate"}
        /\ StageRaised => cap.stage = "generate"
        /\ HasReturned => (StageRaised \/ (ret.kind = "state" /\ ret.state.status = "success"))

\* the first pass was unparseable with budget left, and the run returned success
C9_Witness ==
    /\ Degraded
    /\ req.max_iterations = 3
    /\ state.iteration_count = 1
    /\ pc = "done"
    /\ ret.kind = "state"
    /\ ret.state.status = "success"

(***************************************************************************)
(* C10: Parse and ExtractIntent absorb an unparseable response (the stage  *)
(* writes a placeholder tagged failed_json_parse and the run goes on to    *)
(* the next stage), while an exception raised by the capability call is    *)
(* not caught in the stage and reaches convert_with_workflow's except      *)
(* block.                                                                  *)
(***************************************************************************)
FailureLogged ==
    /\ Len(telemetry) >= 2
    /\ telemetry[Len(telemetry) - 1].kind = "conversion"
    /\ telemetry[Len(telemetry) - 1].status = "failed"
    /\ telemetry[Len(telemetry)] = log_error("workflow_error", exc)

C10_MalformedAbsorbedRaisedPropagates ==
    /\ (cap = [stage |-> "parse", outcome |-> "garbage"]) =>
            /\ pc = "extract_intents"
            /\ ~ StageRaised
            /\ Get(state.parsed_structure, "parsing_status", "") = "failed_json_parse"
    /\ (cap = [stage |-> "extract_intents", outcome |-> "garbage"]) =>
            /\ pc = "validate"
            /\ ~ StageRaised
            /\ Get(state.intent_graph, "parsing_status", "") = "failed_json_parse"
    /\ (cap.stage \in {"parse", "extract_intents"} /\ cap.outcome = "raise") =>
            /\ exc \in CapErrors
            /\ pc \in {"raised", "api_result", "done"}
            /\ pc # "raised" => (ret.kind = "None" /\ FailureLogged)

\* Parse absorbed an unparseable response, then ExtractIntent's call raised
C10_Witness ==
    /\ Get(state, "parsed_structure", <<>>) # <<>>
    /\ Get(state.parsed_structure, "parsing_status", "") = "failed_json_parse"
    /\ cap = [stage |-> "extract_intents", outcome |-> "raise"]
    /\ pc = "done"
    /\ ret.kind = "None"

(***************************************************************************)
(* C11: every stage is total over the payloads the capability can return:  *)
(* whenever the LLM call returned a payload (well-formed, unparseable, or  *)
(* JSON of an unexpected shape), the stage returns a state and no          *)
(* exception leaves it.                                                    *)
(***************************************************************************)
C11_StagesTotalOverPayloads ==
    (cap.stage # "none" /\ cap.outcome # "raise") => ~ StageRaised

ConversionEvents == SelectSeq(telemetry, LAMBDA e : e.kind = "conversion")

C13_OneConversionEvent ==
    (pc = "done" /\ HasReturned) => Len(ConversionEvents) = 1

(***************************************************************************)
(* C14: on an engine-level exception convert_with_workflow emits one       *)
(* conversion event with status failed, then one error event, no           *)
(* conversion event with status success, and returns a state with          *)
(* status = failed.                                                        *)
(***************************************************************************)
C14_FailureEventsThenFailedState ==
    (StageRaised /\ HasReturned) =>
        /\ Len(telemetry) = 2
        /\ telemetry[1].kind = "conversion" /\ telemetry[1].status = "failed"
        /\ telemetry[2].kind = "error"
        /\ ret.kind = "state"
        /\ ret.state.status = "failed"

(***************************************************************************)
(* C15: every conversion event summarizes the terminal state of its run:   *)
(* its status is the terminal status, its iterations the iteration_count   *)
(* the run reached and its code_length the length of generated_code, on    *)
(* the success path and on the failure path.                               *)
(***************************************************************************)
TerminalStatus == IF StageRaised THEN "failed" ELSE state.status

C15_EventSummarizesTerminalState ==
    HasReturned =>
        \A i \in 1..Len(ConversionEvents) :
            /\ ConversionEvents[i].status = TerminalStatus
            /\ ConversionEvents[i].iterations = state.iteration_count
            /\ ConversionEvents[i].code_length = Len(state.generated_code)

(***************************************************************************)
(* C19: for a request that passes input validation the API answers with a  *)
(* response envelope: success is true exactly when the run ended with      *)
(* status = success, iterations and generated_code are those of the        *)
(* terminal state, and a failed run gives success = false with a           *)
(* non-empty error message, not a fault.                                   *)
(***************************************************************************)
C19_EnvelopeReflectsTerminalState ==
    (entry = "api" /\ pc = "done" /\ ~ RequestRejected(req)) =>
        /\ http.status_code = 200
        /\ http.success = (~ StageRaised /\ state.status = "success")
        /\ http.success =>
                /\ http.iterations = state.iteration_count
                /\ http.generated_code = state.generated_code
        /\ ~ http.success => Get(http, "error_message", "") # ""

(***************************************************************************)
(* C20 as claimed: a validation result with no critical issue and no       *)
(* explicit valid = false (a result without the valid field included) is   *)
(* routed to Generate, whatever budget remains.                            *)
(***************************************************************************)
\* should_retry has just decided on the stored validation result
JustRouted ==
    /\ decisions # <<>>
    /\ Len(decisions) = Count(trace, "validate")
    /\ pc \in {"extract_intents", "generate"}

ExplicitlyInvalid(v) == "valid" \in DOMAIN v /\ v.valid = FALSE

C20_OnlyCriticalOrExplicitInvalidRetries ==
    (JustRouted /\ ~ hasCritical(state.validation_result)
                /\ ~ ExplicitlyInvalid(state.validation_result)) =>
        Last(decisions) = "generate"

(***************************************************************************)
(* C20 as amended: a retry is triggered only by a critical issue, by       *)
(* valid = false, or by a result that carries no valid field; a result     *)
(* with valid = true and no critical issue (warnings or infos only) is     *)
(* routed to Generate, whatever budget remains.                            *)
(***************************************************************************)
C20_OnlyCriticalOrNotValidRetries ==
    JustRouted =>
        /\ (~ hasCritical(state.validation_result)
            /\ Get(state.validation_result, "valid", FALSE) = TRUE) =>
                Last(decisions) = "generate"
        /\ Last(decisions) = "extract_intents" =>
                \/ hasCritical(state.validation_result)
                \/ ExplicitlyInvalid(state.validation_result)
                \/ "valid" \notin DOMAIN state.validation_result

\* a warning with valid = true and budget left went to Generate
C20_Witness ==
    /\ JustRouted
    /\ state.validation_result = [valid |-> TRUE, issues |-> <<[severity |-> "warning"]>>]
    /\ state.iteration_count < state.max_iterations
    /\ pc = "generate"

(***************************************************************************)
(* C16: telemetry is fire-and-forget: with the sink unreachable when the   *)
(* logger is constructed, or raising on every index call, log_conversion   *)
(* and log_error return without raising, and what the run returns (the     *)
(* state with its status, iteration_count and generated_code, or the API   *)
(* answer) is what it returns with the sink available.                     *)
(***************************************************************************)
\* what convert_with_workflow returns from the run alone
ReturnOfRun ==
    IF exc = "" THEN [kind |-> "state", state |-> state] ELSE [kind |-> "None"]

\* what convert_code answers from the run alone
AnswerOfRun ==
    IF exc = "" THEN ConversionResponse(state) ELSE [status_code |-> 500]

C16_SinkNeverAffectsRun ==
    /\ exc # "SinkError"
    /\ ret.kind # "exception"
    /\ HasReturned => ret = ReturnOfRun
    /\ (HasReturned /\ entry = "api" /\ pc = "done") => http = AnswerOfRun
    /\ indexed = IF sink = "connected" THEN telemetry ELSE <<>>

\* a successful run returned its state although every index call raised
C16_Witness ==
    /\ sink = "failing"
    /\ pc = "done"
    /\ telemetry # <<>>
    /\ indexed = <<>>
    /\ ret.kind = "state"
    /\ ret.state.status = "success"
    /\ ret.state.generated_code # <<>>

(***************************************************************************)
(* C17: determinism: against a deterministic capability two runs with      *)
(* identical inputs execute the same sequence of stages and return the     *)
(* same generated_code, iteration_count and status; no run's result        *)
(* depends on a run made before it.                                        *)
(***************************************************************************)
RunDone(r) == runs[r].pc = "done"

C17_SameInputsSameRun ==
    \A r1, r2 \in RunIds :
        (RunDone(r1) /\ RunDone(r2) /\ runs[r1].req = runs[r2].req) =>
            /\ runs[r1].trace = runs[r2].trace
            /\ runs[r1].ret = runs[r2].ret

\* two runs of the same request both retried once and returned the same state
C17_Witness ==
    \E r1, r2 \in RunIds :
        /\ r1 # r2
        /\ RunDone(r1) /\ RunDone(r2)
        /\ runs[r1].req = runs[r2].req
        /\ runs[r1].ret.kind = "state"
        /\ runs[r1].ret.state.iteration_count = 2
        /\ runs[r1].ret = runs[r2].ret

(***************************************************************************)
(* C18: concurrent runs are isolated: under any interleaving of the stage  *)
(* executions of the runs, a step of one run leaves the ConversionState    *)
(* of every other run as it was, and each run returns what it would        *)
(* return if it ran alone.                                                 *)
(***************************************************************************)
\* the run of request q alone against the answers orc, from node on
RECURSIVE Alone(_, _, _, _)
Alone(orc, node, s, tr) ==
    IF node = "end" THEN [trace |-> tr, ret |-> [kind |-> "state", state |-> s]]
    ELSE IF node = "route" THEN Alone(orc, should_retry(s), s, tr)
    ELSE IF ~ Known(orc, Prompt(node, s)) THEN [trace |-> tr, ret |-> [kind |-> "unknown"]]
    ELSE LET a == Agent(node, Recall(orc, Prompt(node, s)))
         IN  IF a.raised
             THEN [trace |-> Append(tr, node), ret |-> ExceptReturn(s)]
             ELSE Alone(orc, Edge(node), NodeState(node, s, a), Append(tr, node))

RunAlone(r) == Alone(oracle, "parse", InitialState(runs[r].req), <<>>)

ReturnsAsAlone ==
    \A r \in RunIds :
        RunDone(r) => /\ runs[r].trace = RunAlone(r).trace
                      /\ runs[r].ret = RunAlone(r).ret

C18_RunsAreIsolated ==
    /\ [][\A r \in RunIds :
             runs'[r] = runs[r] => heap'[StateRef(r)] = heap[StateRef(r)]]_vars
    /\ []ReturnsAsAlone

\* two runs with different budgets, interleaved, both retried and both returned a state
C18_Witness ==
    \E r1, r2 \in RunIds :
        /\ runs[r1].req.max_iterations # runs[r2].req.max_iterations
        /\ RunDone(r1) /\ RunDone(r2)
        /\ runs[r1].ret.kind = "state" /\ runs[r2].ret.kind = "state"
        /\ runs[r1].ret.state.iteration_count = 1
        /\ runs[r2].ret.state.iteration_count = 2

(***************************************************************************)
(* C21: status is in_progress in every state of the run before Generate    *)
(* completes, Generate is the only stage that sets status = success, and   *)
(* once status is success or failed it never changes again and no stage    *)
(* executes afterwards.                                                    *)
(***************************************************************************)
GenerateCompleted == Count(trace, "generate") > 0 /\ ~ StageRaised

C21_StatusMonotonicAndTerminal ==
    /\ [](Built => /\ ~ GenerateCompleted => state.status = "in_progress"
                   /\ GenerateCompleted => state.status = "success")
    /\ [][(Built /\ state'.status # state.status) =>
              (pc = "generate" /\ state'.status = "success")]_vars
    /\ [][(Built /\ state.status \in {"success", "failed"}) =>
              (state'.status = state.status /\ trace' = trace)]_vars

\* a run that retried once has generated and returned; its status is success
C21_Witness ==
    /\ pc = "done"
    /\ Count(trace, "extract_intents") = 2
    /\ GenerateCompleted
    /\ state.status = "success"

(***************************************************************************)
(* C22: in every reachable state generated_code is non-empty only if       *)
(* status = success: it stays empty through Parse, ExtractIntent, Validate *)
(* and every retry, and it is written in the step that sets                *)
(* status = success.                                                       *)
(***************************************************************************)
C22_CodeOnlyWithSuccess ==
    /\ [](Built => /\ state.generated_code # <<>> => state.status = "success"
                   /\ Count(trace, "generate") = 0 => state.generated_code = <<>>)
    /\ [][(Built /\ state'.generated_code # state.generated_code) =>
              (pc = "generate" /\ state.status = "in_progress"
                               /\ state'.status = "success")]_vars

\* after a retry Generate stored non-empty code together with status = success
C22_Witness ==
    /\ Built
    /\ Retries = 1
    /\ state.generated_code = <<"x", "=", "1">>
    /\ state.status = "success"

(***************************************************************************)
(* C23: iteration_count starts at 0 and always equals the number of        *)
(* ExtractIntent executions completed so far: each ExtractIntent execution *)
(* (first pass and retries) adds exactly 1, no other stage and no routing  *)
(* decision changes it, and it never decreases.                            *)
(***************************************************************************)
ExtractIntentCompleted ==
    Count(trace, "extract_intents")
      - (IF StageRaised /\ Last(trace) = "extract_intents" THEN 1 ELSE 0)

C23_IterationCountCountsExtractIntent ==
    /\ [](Built => state.iteration_count = ExtractIntentCompleted)
    /\ [][(~ Built /\ state' # <<>>) => state'.iteration_count = 0]_vars
    /\ [][Built =>
            \/ state'.iteration_count = state.iteration_count
            \/ /\ pc = "extract_intents"
               /\ state'.iteration_count = state.iteration_count + 1]_vars

\* two ExtractIntent executions completed and the counter is two at the end of the run
C23_Witness ==
    /\ pc = "done"
    /\ Count(trace, "extract_intents") = 2
    /\ ~ StageRaised
    /\ state.iteration_count = 2

(***************************************************************************)
(* C24: stage ordering: Parse is the first stage and runs exactly once;    *)
(* every ExtractIntent execution is immediately followed by Validate;      *)
(* Generate runs at most once and only immediately after Validate; the     *)
(* only backward edge is Validate -> ExtractIntent; one stage at a time.   *)
(***************************************************************************)
Follows ==
    {<<"parse", "extract_intents">>, <<"extract_intents", "validate">>,
     <<"validate", "extract_intents">>, <<"validate", "generate">>}

C24_StageOrdering ==
    /\ trace # <<>> => trace[1] = "parse"
    /\ Count(trace, "parse") <= 1
    /\ Count(trace, "generate") <= 1
    /\ \A i \in 1..(Len(trace) - 1) : <<trace[i], trace[i + 1]>> \in Follows
    /\ (trace # <<>> /\ ~ StageRaised /\ Last(trace) = "extract_intents") => pc = "validate"
    /\ pc \in {"parse", "extract_intents", "validate", "generate"} =>
            (trace = <<>> \/ <<Last(trace), pc>> \in Follows)

\* one retry: the loop ran twice between the single Parse and the single Generate
C24_Witness ==
    trace = <<"parse", "extract_intents", "validate", "extract_intents", "validate",
              "generate">>

(***************************************************************************)
(* C25: frame conditions: Parse changes only parsed_structure;             *)
(* ExtractIntent only intent_graph and iteration_count; Validate only      *)
(* validation_result; Generate only generated_code and status; no stage    *)
(* and no routing decision changes source_code, source_language,           *)
(* target_language or max_iterations.                                      *)
(***************************************************************************)
C25_StagesWriteOnlyTheirFields ==
    [][Built =>
        /\ pc = "parse" =>
              state' = [state EXCEPT !.parsed_structure = state'.parsed_structure]
        /\ pc = "extract_intents" =>
              state' = [state EXCEPT !.intent_graph = state'.intent_graph,
                                     !.iteration_count = state'.iteration_count]
        /\ pc = "validate" =>
              state' = [state EXCEPT !.validation_result = state'.validation_result]
        /\ pc = "generate" =>
              state' = [state EXCEPT !.generated_code = state'.generated_code,
                                     !.status = state'.status]
        /\ pc = "route" => state' = state
        /\ state'.source_code = req.source_code
        /\ state'.source_language = req.source_language
        /\ state'.target_language = req.target_language
        /\ state'.max_iterations = req.max_iterations]_vars

\* every stage has written its field, after a retry, and the inputs are as given
C25_Witness ==
    /\ pc = "done"
    /\ Retries = 1
    /\ state.parsed_structure # <<>>
    /\ state.intent_graph # <<>>
    /\ state.validation_result # <<>>
    /\ state.generated_code # <<>>
    /\ state.status = "success"
    /\ state.source_code = req.source_code
    /\ state.max_iterations = req.max_iterations

(***************************************************************************)
(* C29: convert_with_workflow called directly with any integer             *)
(* max_iterations (values <= 0 and > 10 included, which it does not        *)
(* check): ExtractIntent still executes at least once, and when every      *)
(* validation is invalid and no stage raises, the terminal iteration_count *)
(* is max(1, max_iterations).                                              *)
(***************************************************************************)
Max(a, b) == IF a >= b THEN a ELSE b

C26_ValidationResultNeverStale ==
    pc \in {"route", "generate"} =>
        /\ Last(trace) = "validate"
        /\ validated.result = state.validation_result
        /\ validated.intent_graph = state.intent_graph

\* after an invalid pass and a retry, Generate starts on the valid result of the second pass
C26_Witness ==
    /\ pc = "generate"
    /\ decisions = <<"extract_intents", "generate">>
    /\ state.validation_result = [valid |-> TRUE, issues |-> <<>>]
    /\ validated.result = state.validation_result
    /\ validated.intent_graph = state.intent_graph

(***************************************************************************)
(* C28: after every ExtractIntent execution that returns, one that got an  *)
(* unparseable response included, intent_graph is a document with at least *)
(* the fields intents, data_flow and overall_goal.                         *)
(***************************************************************************)
C28_IntentGraphHasShape ==
    (Built /\ ExtractIntentCompleted >= 1) =>
        {"intents", "data_flow", "overall_goal"} \subseteq DOMAIN state.intent_graph

(***************************************************************************)
(* C27: every run terminates: when each capability call returns or raises, *)
(* a run with max_iterations = N >= 1 reaches a terminal outcome after at  *)
(* most 2N + 2 stage executions (1 Parse, at most N ExtractIntent, at most *)
(* N Validate, at most 1 Generate); the ExtractIntent/Validate loop cannot *)
(* cycle forever.                                                          *)
(***************************************************************************)
StageBudget ==
    req.max_iterations >= 1 =>
        /\ Len(trace) <= 2 * req.max_iterations + 2
        /\ Count(trace, "parse") <= 1
        /\ Count(trace, "extract_intents") <= req.max_iterations
        /\ Count(trace, "validate") <= req.max_iterations
        /\ Count(trace, "generate") <= 1

C27_RunTerminatesWithinBudget ==
    /\ []StageBudget
    /\ (req.max_iterations >= 1) => <>(pc = "done")

\* a run with max_iterations = 3 used all 2N + 2 = 8 stage executions and ended
C27_Witness ==
    /\ req.max_iterations = 3
    /\ Len(trace) = 2 * req.max_iterations + 2
    /\ pc = "done"

(***************************************************************************)
(* C30: in the file-upload endpoint convert_file a client-error rejection  *)
(* (HTTP 400 for an unsupported file extension, or HTTP 400 raised by      *)
(* convert_code for empty source or max_iterations out of range) reaches   *)
(* the caller with status 400, and no workflow stage executes for that     *)
(* request.                                                                *)
(***************************************************************************)
\* the upload was rejected for its extension, or convert_code rejected the request built from it
ClientErrorRejection ==
    IF "file" \in DOMAIN req
    THEN req.file.utf8 /\ DetectedLanguage(req.file.filename) = ""
    ELSE RequestRejected(req)

C30_FileRejectionIs400 ==
    (entry = "file" /\ pc = "done" /\ ClientErrorRejection) =>
        /\ http.status_code = 400
        /\ trace = <<>>

(***************************************************************************)
(* C31: the code-fence clean-up of CodeGeneratorAgent.generate removes     *)
(* only delimiter lines: for an answer made of an optional opening fence   *)
(* line, body lines and an optional closing fence, the returned code is    *)
(* exactly the body with outer whitespace trimmed; without fences the      *)
(* answer is returned trimmed, and with an opening fence but no closing    *)
(* fence no body line is lost.                                             *)
(***************************************************************************)
TrimmedBody == Strip(str_join(Newline, cleanup.body))

C31_CleanupReturnsBody ==
    cleanup.step = "returned" => cleanup.text = TrimmedBody

====
